---- MODULE Spec2Model ----
(***************************************************************************)
(* Three variants of a thin HTTP API in front of one S3 bucket:            *)
(*   fastapi-s3-app              (actions app_*,  specification Spec)      *)
(*   project-root                (actions root_*, specification SpecRoot)  *)
(*   fastapi_s3_file_operations  (actions ops_*,  specification SpecOps)   *)
(* with the app's uploads served at the same time (SpecConcurrent), the    *)
(* validators as pure functions (SpecValidation) and the app's service     *)
(* method upload_file_to_s3 on its own (SpecService).                      *)
(*                                                                         *)
(* Bytes are not enumerated: a payload is [id, size] and the bytes a read  *)
(* of a stream yields are the slice [id, lo, hi) of that payload.  A       *)
(* Python string built by an f-string or str() is a sequence of fragments. *)
(***************************************************************************)
EXTENDS Integers, Sequences, FiniteSets, TLC

VARIABLES bucket, inflight, last, uploaded, overwritten, vfile, vres, service

vars == <<bucket, inflight, last, uploaded, overwritten, vfile, vres, service>>

(***************************************************************************)
(* Bounds and input sets                                                   *)
(***************************************************************************)
NumReqs == 2

Reqs == 1..NumReqs

\* filenames, i.e. S3 keys, in the bucket's (UTF-8 binary) listing order
Keys == <<"a.png", "b.png">>

KeySet == {Keys[i] : i \in 1..Len(Keys)}

PayloadIds == {"b1", "b2"}

ALLOWED_FILE_TYPES == {"image/jpeg", "image/png", "application/pdf"}

MAX_FILE_SIZE == 5 * 1024 * 1024

\* content types and sizes of the requests the handlers are driven with
ContentTypes == {"image/png", "text/plain"}

Sizes == {0, MAX_FILE_SIZE, MAX_FILE_SIZE + 1}

\* content types and sizes the validators are applied to on their own
VContentTypes == ALLOWED_FILE_TYPES \cup {"text/plain", "application/zip", ""}

VSizes == {-1, 0, 1024, MAX_FILE_SIZE - 1, MAX_FILE_SIZE, MAX_FILE_SIZE + 1,
           6 * 1024 * 1024}

bucket_name == "bucket-for-ai-generated-content"

(***************************************************************************)
(* Streams (file.file) and bytes                                           *)
(***************************************************************************)
NoBody == [id |-> "-", lo |-> 0, hi |-> 0]

EmptyBytes == [id |-> "", lo |-> 0, hi |-> 0]

\* the bytes of payload data from offset lo to its end
Slice(data, lo) ==
    IF lo >= data.size THEN EmptyBytes
    ELSE [id |-> data.id, lo |-> lo, hi |-> data.size]

Whole(data) == Slice(data, 0)

\* file.seek(offset, whence): whence 0 is from the start, 2 from the end
seek(stream, offset, whence) ==
    [stream EXCEPT !.pos = IF whence = 2 THEN stream.data.size + offset ELSE offset]

tell(stream) == stream.pos

\* read to the end from the current position, as upload_fileobj does
read(stream) == Slice(stream.data, stream.pos)

UploadFile(filename, content_type, data, pos) ==
    [filename |-> filename, content_type |-> content_type,
     file |-> [data |-> data, pos |-> pos]]

NoFile == UploadFile("", "", [id |-> "-", size |-> 0], 0)

(***************************************************************************)
(* Exceptions                                                              *)
(***************************************************************************)
NoExc == [cls |-> "None", status_code |-> 0, detail |-> <<>>, msg |-> <<>>]

HTTPException(status_code, detail) ==
    [cls |-> "HTTPException", status_code |-> status_code, detail |-> detail,
     msg |-> <<>>]

Raise(cls, msg) == [cls |-> cls, status_code |-> 0, detail |-> <<>>, msg |-> msg]

\* the classes an exception class derives from, itself included
Bases(cls) ==
    CASE cls = "NoSuchKey"               -> {"NoSuchKey", "ClientError", "Exception"}
      [] cls = "NoCredentialsError"      -> {cls, "BotoCoreError", "Exception"}
      [] cls = "EndpointConnectionError" -> {cls, "BotoCoreError", "Exception"}
      [] cls = "FileNotFoundError"       -> {cls, "OSError", "Exception"}
      [] cls = "UnicodeDecodeError"      -> {cls, "ValueError", "Exception"}
      [] cls = "None"                    -> {}
      [] OTHER                           -> {cls, "Exception"}

isinstance(e, cls) == cls \in Bases(e.cls)

\* str(e)
str(e) ==
    IF e.cls = "HTTPException"
    THEN <<ToString(e.status_code), ": ">> \o e.detail
    ELSE e.msg

\* no validator has been called yet
NoRes == [fn |-> "", arg |-> NoFile, exc |-> NoExc]

(***************************************************************************)
(* fastapi-s3-app/app/utils/validation.py                                  *)
(***************************************************************************)
\* mutant: application/pdf left out of the allow-list
validate_file_type_no_pdf(file) ==
    IF file.content_type \notin {"image/jpeg", "image/png"}
    THEN HTTPException(400, <<"Unsupported file type.">>)
    ELSE NoExc

validate_file_type(file) ==
    IF file.content_type \notin ALLOWED_FILE_TYPES
    THEN HTTPException(400, <<"Unsupported file type.">>)
    ELSE NoExc

\* mutant: the limit itself is rejected (>= for >)
validate_file_size_exclusive(file) ==
    LET atEnd     == seek(file.file, 0, 2)
        file_size == tell(atEnd)
        rewound   == seek(atEnd, 0, 0)
    IN  [file |-> [file EXCEPT !.file = rewound],
         exc  |-> IF file_size >= MAX_FILE_SIZE
                  THEN HTTPException(400,
                         <<"File size exceeds the maximum limit of 5 MB.">>)
                  ELSE NoExc]

\* mutant: the stream is put back where it was before the call
validate_file_size_restore_pos(file) ==
    LET atEnd     == seek(file.file, 0, 2)
        file_size == tell(atEnd)
        restored  == seek(atEnd, file.file.pos, 0)
    IN  [file |-> [file EXCEPT !.file = restored],
         exc  |-> IF file_size > MAX_FILE_SIZE
                  THEN HTTPException(400,
                         <<"File size exceeds the maximum limit of 5 MB.">>)
                  ELSE NoExc]

\* mutant: the stream is left at its end (no file.file.seek(0))
validate_file_size_no_rewind(file) ==
    LET atEnd     == seek(file.file, 0, 2)
        file_size == tell(atEnd)
    IN  [file |-> [file EXCEPT !.file = atEnd],
         exc  |-> IF file_size > MAX_FILE_SIZE
                  THEN HTTPException(400,
                         <<"File size exceeds the maximum limit of 5 MB.">>)
                  ELSE NoExc]

\* the exception raised (NoExc for none) and the file as the call leaves it
validate_file_size(file) ==
    LET atEnd     == seek(file.file, 0, 2)
        file_size == tell(atEnd)
        rewound   == seek(atEnd, 0, 0)
    IN  [file |-> [file EXCEPT !.file = rewound],
         exc  |-> IF file_size > MAX_FILE_SIZE
                  THEN HTTPException(400,
                         <<"File size exceeds the maximum limit of 5 MB.">>)
                  ELSE NoExc]

(***************************************************************************)
(* The bucket, as the boto3 client sees it                                 *)
(***************************************************************************)
\* list_objects_v2 returns at most this many keys in one response (1000 in
\* S3, scaled down); the services never ask for the next page
MaxKeys == 1

NoObj == [body |-> NoBody, content_type |-> ""]

\* upload_fileobj(Fileobj, Bucket, Key) without ExtraArgs: the object gets
\* the bytes read from the stream's position and the default content type
s3_upload_fileobj(b, stream, key) ==
    [b EXCEPT ![key] = [body |-> read(stream), content_type |-> "binary/octet-stream"]]

RECURSIVE KeysFrom(_, _)
KeysFrom(b, i) ==
    IF i > Len(Keys) THEN <<>>
    ELSE (IF b[Keys[i]] # NoObj THEN <<Keys[i]>> ELSE <<>>) \o KeysFrom(b, i + 1)

\* response['Contents'] as a sequence of keys; <<>> when the key is absent
s3_list_objects_v2(b) ==
    LET all == KeysFrom(b, 1)
    IN  SubSeq(all, 1, IF Len(all) < MaxKeys THEN Len(all) ELSE MaxKeys)

\* what the backend raises besides NoSuchKey; msg is the exception's text
Faults == {"none", "NoCredentialsError", "ClientError", "ValueError",
           "EndpointConnectionError"}

BackendError(fault) ==
    IF fault = "none" THEN NoExc ELSE Raise(fault, <<"botocore says ", fault>>)

\* get_object(Bucket, Key): the exception raised and response['Body']
s3_get_object(b, key, fault) ==
    IF fault # "none" THEN [exc |-> BackendError(fault), Body |-> NoBody]
    ELSE IF b[key] = NoObj
    THEN [exc |-> Raise("NoSuchKey", <<"botocore says ", "NoSuchKey">>), Body |-> NoBody]
    ELSE [exc |-> NoExc, Body |-> b[key].body]

(***************************************************************************)
(* Responses                                                               *)
(***************************************************************************)
NoResp == [status_code |-> 0, detail |-> <<>>, message |-> "", file_url |-> <<>>,
           files |-> <<>>, body |-> NoBody, media_type |-> ""]

\* a raised HTTPException, as FastAPI answers it
ErrorResponse(e) ==
    [NoResp EXCEPT !.status_code = e.status_code, !.detail = e.detail,
                   !.media_type = "application/json"]

UploadedResponse(status_code, file_url) ==
    [NoResp EXCEPT !.status_code = status_code,
                   !.message = "File uploaded successfully",
                   !.file_url = file_url, !.media_type = "application/json"]

FilesResponse(files) ==
    [NoResp EXCEPT !.status_code = 200, !.files = files,
                   !.media_type = "application/json"]

StreamingResponse(body) ==
    [NoResp EXCEPT !.status_code = 200, !.body = body,
                   !.media_type = "application/octet-stream"]

(***************************************************************************)
(* fastapi-s3-app/app/services/s3_service.py                               *)
(***************************************************************************)
\* mutant: the URL of the regional endpoint
FileUrl_regional(filename) ==
    <<"https://", bucket_name, ".s3.us-east-1.amazonaws.com/", filename>>

\* S3Service.__init__: the fields of the one service object of the process
S3Service == [s3_client |-> "boto3.client('s3')", bucket_name |-> bucket_name]

FileUrl(filename) == <<"https://", bucket_name, ".s3.amazonaws.com/", filename>>

\* mutant: the URL names the payload (a per-upload object name)
upload_file_to_s3_per_upload_url(file, raised) ==
    IF raised = NoExc
    THEN [exc |-> NoExc, file_url |-> FileUrl(file.filename) \o <<"?", file.file.data.id>>]
    ELSE [exc |-> Raise("Exception", <<"Failed to upload file.">>), file_url |-> <<>>]

\* mutant: one except clause for both failure kinds
upload_file_to_s3_one_message(file, raised) ==
    IF raised = NoExc THEN [exc |-> NoExc, file_url |-> FileUrl(file.filename)]
    ELSE IF isinstance(raised, "NoCredentialsError") \/ isinstance(raised, "ClientError")
    THEN [exc |-> Raise("Exception", <<"Failed to upload file.">>), file_url |-> <<>>]
    ELSE [exc |-> raised, file_url |-> <<>>]

\* raised is what upload_fileobj raised; the exception the method raises and
\* the URL it returns
upload_file_to_s3(file, raised) ==
    IF raised = NoExc THEN [exc |-> NoExc, file_url |-> FileUrl(file.filename)]
    ELSE IF isinstance(raised, "NoCredentialsError")
    THEN [exc |-> Raise("Exception", <<"AWS credentials not available.">>),
          file_url |-> <<>>]
    ELSE IF isinstance(raised, "ClientError")
    THEN [exc |-> Raise("Exception", <<"Failed to upload file.">>), file_url |-> <<>>]
    ELSE [exc |-> raised, file_url |-> <<>>]

\* mutant: response['Contents'] is read without the test for the key
list_files_in_s3_no_contents_test(contents, raised) ==
    IF raised = NoExc
    THEN IF contents = <<>>
         THEN [exc |-> Raise("KeyError", <<"'Contents'">>), files |-> <<>>]
         ELSE [exc |-> NoExc, files |-> contents]
    ELSE IF isinstance(raised, "ClientError")
    THEN [exc |-> Raise("Exception", <<"Failed to list files.">>), files |-> <<>>]
    ELSE [exc |-> raised, files |-> <<>>]

\* contents is response['Contents'] (<<>> when absent)
list_files_in_s3(contents, raised) ==
    IF raised = NoExc THEN [exc |-> NoExc, files |-> contents]
    ELSE IF isinstance(raised, "ClientError")
    THEN [exc |-> Raise("Exception", <<"Failed to list files.">>), files |-> <<>>]
    ELSE [exc |-> raised, files |-> <<>>]

\* mutant: the ClientError clause comes first and takes NoSuchKey with it
get_file_from_s3_client_error_first(file_name, got) ==
    IF got.exc = NoExc THEN got
    ELSE IF isinstance(got.exc, "ClientError")
    THEN [exc |-> Raise("Exception", <<"Failed to retrieve file.">>), Body |-> NoBody]
    ELSE got

get_file_from_s3(file_name, got) ==
    IF got.exc = NoExc THEN got
    ELSE IF isinstance(got.exc, "NoSuchKey")
    THEN [exc  |-> Raise("FileNotFoundError", <<"File ", file_name, " not found.">>),
          Body |-> NoBody]
    ELSE IF isinstance(got.exc, "ClientError")
    THEN [exc |-> Raise("Exception", <<"Failed to retrieve file.">>), Body |-> NoBody]
    ELSE got

(***************************************************************************)
(* fastapi-s3-app/app/routers                                              *)
(***************************************************************************)
\* calls is the number of calls of the boto3 client the request made
NoLast == [op |-> "", key |-> "", file |-> NoFile, raised |-> NoExc,
           resp |-> NoResp, calls |-> 0]

\* the except clauses of upload_file
app_upload_except(e) ==
    IF isinstance(e, "ValueError") THEN ErrorResponse(HTTPException(400, str(e)))
    ELSE ErrorResponse(HTTPException(500, <<"Internal Server Error">>))

\* mutant: the declared type is not checked
app_upload_validate_size_only(file) == validate_file_size(file)

\* validate_file_type(file); validate_file_size(file)
app_upload_validate(file) ==
    IF validate_file_type(file) # NoExc
    THEN [file |-> file, exc |-> validate_file_type(file)]
    ELSE validate_file_size(file)

\* mutant: a successful upload is answered 201 Created
app_upload_store_created(file, raised) ==
    LET res == upload_file_to_s3(file, raised)
    IN  IF res.exc = NoExc THEN UploadedResponse(201, res.file_url)
        ELSE app_upload_except(res.exc)

\* the try block of upload_file from the call of the service on
app_upload_store(file, raised) ==
    LET res == upload_file_to_s3(file, raised)
    IN  IF res.exc = NoExc THEN UploadedResponse(200, res.file_url)
        ELSE app_upload_except(res.exc)

\* the bucket and the record of successful uploads after a put of file
Stored(file, raised) ==
    /\ bucket' = IF raised = NoExc
                 THEN s3_upload_fileobj(bucket, file.file, file.filename)
                 ELSE bucket
    /\ uploaded' = IF raised = NoExc
                   THEN [uploaded EXCEPT ![file.filename] = Whole(file.file.data)]
                   ELSE uploaded
    /\ overwritten' = IF raised = NoExc
                      THEN [overwritten EXCEPT
                              ![file.filename] = (uploaded[file.filename] # NoBody)]
                      ELSE overwritten

\* POST /upload/
app_upload_file(file, fault) ==
    /\ LET v == app_upload_validate(file)
       IN  IF v.exc # NoExc
           THEN /\ last' = [op |-> "upload", key |-> file.filename, file |-> file,
                            raised |-> NoExc, resp |-> app_upload_except(v.exc),
                            calls |-> 0]
                /\ UNCHANGED <<bucket, uploaded, overwritten>>
           ELSE /\ last' = [op |-> "upload", key |-> file.filename, file |-> file,
                            raised |-> BackendError(fault),
                            resp |-> app_upload_store(v.file, BackendError(fault)),
                            calls |-> 1]
                /\ Stored(v.file, BackendError(fault))
    /\ UNCHANGED <<inflight, vfile, vres, service>>

\* mutant: a failed list_objects_v2 is called a second time, which succeeds
app_list_files_retry(fault) ==
    /\ LET raised == BackendError(fault)
           res    == list_files_in_s3(s3_list_objects_v2(bucket), NoExc)
       IN  last' = [NoLast EXCEPT !.op = "list", !.raised = raised,
                                  !.resp = FilesResponse(res.files),
                                  !.calls = IF raised = NoExc THEN 1 ELSE 2]
    /\ UNCHANGED <<bucket, inflight, uploaded, overwritten, vfile, vres, service>>

\* mutant: the handler makes itself a new client for the call
app_list_files_new_client(fault) ==
    /\ LET raised == BackendError(fault)
           res    == list_files_in_s3(s3_list_objects_v2(bucket), raised)
           resp   == IF res.exc = NoExc THEN FilesResponse(res.files)
                     ELSE ErrorResponse(HTTPException(500, <<"Internal Server Error">>))
       IN  last' = [NoLast EXCEPT !.op = "list", !.raised = raised, !.resp = resp,
                                  !.calls = 1]
    /\ service' = [service EXCEPT !.s3_client = "boto3.client('s3') again"]
    /\ UNCHANGED <<bucket, inflight, uploaded, overwritten, vfile, vres>>

\* GET /files/
app_list_files(fault) ==
    /\ LET raised == BackendError(fault)
           res    == list_files_in_s3(s3_list_objects_v2(bucket), raised)
           resp   == IF res.exc = NoExc THEN FilesResponse(res.files)
                     ELSE ErrorResponse(HTTPException(500, <<"Internal Server Error">>))
       IN  last' = [NoLast EXCEPT !.op = "list", !.raised = raised, !.resp = resp,
                                  !.calls = 1]
    /\ UNCHANGED <<bucket, inflight, uploaded, overwritten, vfile, vres, service>>

\* mutant: a Get that succeeds removes the object it read
app_get_file_consuming(file_name, fault) ==
    /\ LET got  == s3_get_object(bucket, file_name, fault)
           res  == get_file_from_s3(file_name, got)
           resp == IF res.exc = NoExc THEN StreamingResponse(res.Body)
                   ELSE IF isinstance(res.exc, "FileNotFoundError")
                   THEN ErrorResponse(HTTPException(404, <<"File not found">>))
                   ELSE ErrorResponse(HTTPException(500, <<"Internal Server Error">>))
       IN  /\ last' = [NoLast EXCEPT !.op = "get", !.key = file_name,
                                      !.raised = got.exc, !.resp = resp,
                                      !.calls = 1]
           /\ bucket' = IF res.exc = NoExc THEN [bucket EXCEPT ![file_name] = NoObj]
                        ELSE bucket
    /\ UNCHANGED <<inflight, uploaded, overwritten, vfile, vres, service>>

\* GET /files/{file_name}
app_get_file(file_name, fault) ==
    /\ LET got  == s3_get_object(bucket, file_name, fault)
           res  == get_file_from_s3(file_name, got)
           resp == IF res.exc = NoExc THEN StreamingResponse(res.Body)
                   ELSE IF isinstance(res.exc, "FileNotFoundError")
                   THEN ErrorResponse(HTTPException(404, <<"File not found">>))
                   ELSE ErrorResponse(HTTPException(500, <<"Internal Server Error">>))
       IN  last' = [NoLast EXCEPT !.op = "get", !.key = file_name,
                                  !.raised = got.exc, !.resp = resp,
                                  !.calls = 1]
    /\ UNCHANGED <<bucket, inflight, uploaded, overwritten, vfile, vres, service>>

\* the uploads the handlers are driven with; a request's stream starts at 0
Files ==
    {UploadFile(k, ct, [id |-> p, size |-> s], 0) :
        k \in KeySet, ct \in ContentTypes, p \in PayloadIds, s \in Sizes}

New == [pc |-> "new", file |-> NoFile, raised |-> NoExc, resp |-> NoResp,
        during |-> {}]

Init ==
    /\ bucket = [k \in KeySet |-> NoObj]
    /\ inflight = [r \in Reqs |-> New]
    /\ last = NoLast
    /\ uploaded = [k \in KeySet |-> NoBody]
    /\ overwritten = [k \in KeySet |-> FALSE]
    /\ vfile = NoFile
    /\ vres = NoRes
    /\ service = S3Service

Next ==
    \/ \E file \in Files, fault \in Faults : app_upload_file(file, fault)
    \/ \E fault \in Faults : app_list_files(fault)
    \/ \E k \in KeySet, fault \in Faults : app_get_file(k, fault)

Spec == Init /\ [][Next]_vars

(***************************************************************************)
(* fastapi-s3-app: NumReqs uploads served at the same time.  A request is  *)
(* private to its worker until upload_fileobj is called; the put of one    *)
(* object is atomic in S3.                                                 *)
(***************************************************************************)
\* the backend outcomes of the concurrent uploads
ConcFaults == {"none", "ClientError"}

\* upload_file up to the call of the service; during holds the requests
\* waiting on the backend when this one arrives
app_upload_file_begin(r, file) ==
    /\ inflight[r].pc = "new"
    /\ LET v == app_upload_validate(file)
       IN  inflight' = [inflight EXCEPT ![r] =
             IF v.exc # NoExc
             THEN [New EXCEPT !.pc = "done", !.file = v.file,
                              !.resp = app_upload_except(v.exc)]
             ELSE [New EXCEPT !.pc = "put", !.file = v.file,
                              !.during = {q \in Reqs : inflight[q].pc = "put"}]]
    /\ UNCHANGED <<bucket, last, uploaded, overwritten, vfile, vres, service>>

\* upload_file from the call of the service to the response
app_upload_file_put(r, fault) ==
    /\ inflight[r].pc = "put"
    /\ inflight' = [inflight EXCEPT ![r] =
          [@ EXCEPT !.pc = "done", !.raised = BackendError(fault),
                    !.resp = app_upload_store(inflight[r].file, BackendError(fault))]]
    /\ Stored(inflight[r].file, BackendError(fault))
    /\ UNCHANGED <<last, vfile, vres, service>>

NextConcurrent ==
    \/ \E r \in Reqs, file \in Files : app_upload_file_begin(r, file)
    \/ \E r \in Reqs, fault \in ConcFaults : app_upload_file_put(r, fault)

SpecConcurrent == Init /\ [][NextConcurrent]_vars

(***************************************************************************)
(* project-root                                                            *)
(***************************************************************************)
\* app/utils/validation.py
_get_file_size(file) ==
    LET atEnd == seek(file.file, 0, 2)
    IN  [file |-> [file EXCEPT !.file = seek(atEnd, 0, 0)], size |-> tell(atEnd)]

validate_file(file) ==
    IF file.content_type \notin ALLOWED_FILE_TYPES
    THEN [file |-> file,
          exc  |-> HTTPException(400,
                     <<"Invalid file type. Allowed types are: JPEG, PNG, PDF.">>)]
    ELSE [file |-> _get_file_size(file).file,
          exc  |-> IF _get_file_size(file).size > MAX_FILE_SIZE
                   THEN HTTPException(400, <<"File size exceeds the 5 MB limit.">>)
                   ELSE NoExc]

\* app/services/s3_service.py
root_s3_upload_file(file, raised) ==
    IF raised = NoExc THEN [exc |-> NoExc, file_url |-> FileUrl(file.filename)]
    ELSE IF isinstance(raised, "ClientError")
    THEN [exc |-> HTTPException(500, <<"Failed to upload file.">>), file_url |-> <<>>]
    ELSE [exc |-> HTTPException(500, <<"An unexpected error occurred.">>),
          file_url |-> <<>>]

root_s3_list_files(contents, raised) ==
    IF raised = NoExc THEN [exc |-> NoExc, files |-> contents]
    ELSE IF isinstance(raised, "ClientError")
    THEN [exc |-> HTTPException(500, <<"Failed to list files.">>), files |-> <<>>]
    ELSE [exc |-> HTTPException(500, <<"An unexpected error occurred.">>),
          files |-> <<>>]

\* e.response['Error']['Code'] of a NoSuchKey is 'NoSuchKey'
root_s3_get_file_content(got) ==
    IF got.exc = NoExc THEN got
    ELSE IF isinstance(got.exc, "ClientError")
    THEN [exc  |-> IF got.exc.cls = "NoSuchKey"
                   THEN HTTPException(404, <<"File not found.">>)
                   ELSE HTTPException(500, <<"Failed to retrieve file content.">>),
          Body |-> NoBody]
    ELSE [exc |-> HTTPException(500, <<"An unexpected error occurred.">>),
          Body |-> NoBody]

\* app/routers/file_operations.py: every handler's except Exception clause
root_except(e) == ErrorResponse(HTTPException(500, str(e)))

\* POST /upload
root_upload_file(file, fault) ==
    /\ LET v == validate_file(file)
       IN  IF v.exc # NoExc
           THEN /\ last' = [op |-> "upload", key |-> file.filename, file |-> file,
                            raised |-> NoExc, resp |-> root_except(v.exc),
                            calls |-> 0]
                /\ UNCHANGED <<bucket, uploaded, overwritten>>
           ELSE /\ LET res == root_s3_upload_file(v.file, BackendError(fault))
                   IN  last' = [op |-> "upload", key |-> file.filename, file |-> file,
                                raised |-> BackendError(fault),
                                resp |-> IF res.exc = NoExc
                                         THEN UploadedResponse(201, res.file_url)
                                         ELSE root_except(res.exc),
                                calls |-> 1]
                /\ Stored(v.file, BackendError(fault))
    /\ UNCHANGED <<inflight, vfile, vres, service>>

\* GET /files
root_list_files(fault) ==
    /\ LET raised == BackendError(fault)
           res    == root_s3_list_files(s3_list_objects_v2(bucket), raised)
       IN  last' = [NoLast EXCEPT !.op = "list", !.raised = raised, !.calls = 1,
                                  !.resp = IF res.exc = NoExc
                                           THEN FilesResponse(res.files)
                                           ELSE root_except(res.exc)]
    /\ UNCHANGED <<bucket, inflight, uploaded, overwritten, vfile, vres, service>>

\* GET /files/{file_name}
root_get_file_content(file_name, fault) ==
    /\ LET got == s3_get_object(bucket, file_name, fault)
           res == root_s3_get_file_content(got)
       IN  last' = [NoLast EXCEPT !.op = "get", !.key = file_name,
                                  !.raised = got.exc, !.calls = 1,
                                  !.resp = IF res.exc = NoExc
                                           THEN [StreamingResponse(res.Body) EXCEPT
                                                   !.media_type = "application/json"]
                                           ELSE root_except(res.exc)]
    /\ UNCHANGED <<bucket, inflight, uploaded, overwritten, vfile, vres, service>>

NextRoot ==
    \/ \E file \in Files, fault \in Faults : root_upload_file(file, fault)
    \/ \E fault \in Faults : root_list_files(fault)
    \/ \E k \in KeySet, fault \in Faults : root_get_file_content(k, fault)

SpecRoot == Init /\ [][NextRoot]_vars

(***************************************************************************)
(* fastapi_s3_file_operations                                              *)
(***************************************************************************)
\* the payloads that are UTF-8 text
Utf8Ids == {"", "b1"}

\* src/services/s3_service.py
ops_s3_upload_file(file, raised) ==
    IF raised = NoExc THEN [exc |-> NoExc, file_url |-> FileUrl(file.filename)]
    ELSE IF isinstance(raised, "NoCredentialsError")
    THEN [exc |-> HTTPException(403, <<"AWS credentials not found.">>),
          file_url |-> <<>>]
    ELSE IF isinstance(raised, "ClientError")
    THEN [exc |-> HTTPException(500, <<"Failed to upload file: ">> \o str(raised)),
          file_url |-> <<>>]
    ELSE [exc |-> raised, file_url |-> <<>>]

ops_s3_list_files(contents, raised) ==
    IF raised = NoExc THEN [exc |-> NoExc, files |-> contents]
    ELSE IF isinstance(raised, "ClientError")
    THEN [exc |-> HTTPException(500, <<"Failed to list files: ">> \o str(raised)),
          files |-> <<>>]
    ELSE [exc |-> raised, files |-> <<>>]

\* response['Body'].read().decode('utf-8') raises UnicodeDecodeError, a
\* ValueError, on bytes that are not UTF-8
ops_s3_get_file_content(got) ==
    IF got.exc = NoExc
    THEN IF got.Body.id \in Utf8Ids THEN got
         ELSE [exc  |-> Raise("UnicodeDecodeError", <<"'utf-8' codec can't decode">>),
               Body |-> NoBody]
    ELSE IF isinstance(got.exc, "NoSuchKey")
    THEN [exc |-> HTTPException(404, <<"File not found.">>), Body |-> NoBody]
    ELSE IF isinstance(got.exc, "ClientError")
    THEN [exc  |-> HTTPException(500,
                     <<"Failed to retrieve file content: ">> \o str(got.exc)),
          Body |-> NoBody]
    ELSE got

\* mutant: every exception is answered 500 with its detail
handle_error_always_500(e) ==
    IF isinstance(e, "HTTPException")
    THEN ErrorResponse(HTTPException(500, e.detail))
    ELSE ErrorResponse(HTTPException(500, <<"Internal Server Error">>))

\* mutant: every exception is answered with the generic 500
handle_error_generic(e) ==
    ErrorResponse(HTTPException(500, <<"Internal Server Error">>))

\* src/utils/helpers.py
handle_error(e) ==
    IF isinstance(e, "HTTPException")
    THEN ErrorResponse(HTTPException(e.status_code, e.detail))
    ELSE ErrorResponse(HTTPException(500, <<"Internal Server Error">>))

\* src/controllers/file_controller.py
\* POST /upload
ops_upload_file(file, fault) ==
    /\ LET res == ops_s3_upload_file(file, BackendError(fault))
       IN  last' = [op |-> "upload", key |-> file.filename, file |-> file,
                    raised |-> BackendError(fault),
                    resp |-> IF res.exc = NoExc
                             THEN UploadedResponse(200, res.file_url)
                             ELSE handle_error(res.exc),
                    calls |-> 1]
    /\ Stored(file, BackendError(fault))
    /\ UNCHANGED <<inflight, vfile, vres, service>>

\* GET /files
ops_list_files(fault) ==
    /\ LET raised == BackendError(fault)
           res    == ops_s3_list_files(s3_list_objects_v2(bucket), raised)
       IN  last' = [NoLast EXCEPT !.op = "list", !.raised = raised, !.calls = 1,
                                  !.resp = IF res.exc = NoExc
                                           THEN FilesResponse(res.files)
                                           ELSE handle_error(res.exc)]
    /\ UNCHANGED <<bucket, inflight, uploaded, overwritten, vfile, vres, service>>

\* GET /files/{file_name}
ops_get_file_content(file_name, fault) ==
    /\ LET got == s3_get_object(bucket, file_name, fault)
           res == ops_s3_get_file_content(got)
       IN  last' = [NoLast EXCEPT !.op = "get", !.key = file_name,
                                  !.raised = got.exc, !.calls = 1,
                                  !.resp = IF res.exc = NoExc
                                           THEN [StreamingResponse(res.Body) EXCEPT
                                                   !.media_type = "application/json"]
                                           ELSE handle_error(res.exc)]
    /\ UNCHANGED <<bucket, inflight, uploaded, overwritten, vfile, vres, service>>

NextOps ==
    \/ \E file \in Files, fault \in Faults : ops_upload_file(file, fault)
    \/ \E fault \in Faults : ops_list_files(fault)
    \/ \E k \in KeySet, fault \in Faults : ops_get_file_content(k, fault)

SpecOps == Init /\ [][NextOps]_vars

(***************************************************************************)
(* The validators on their own                                             *)
(***************************************************************************)
VFiles ==
    {UploadFile(k, ct, [id |-> "b1", size |-> s], p) :
        k \in {Keys[1]}, ct \in VContentTypes, s \in VSizes, p \in {0, 1024}}

InitValidation ==
    /\ vfile \in VFiles
    /\ vres = NoRes
    /\ bucket = [k \in KeySet |-> NoObj]
    /\ inflight = [r \in Reqs |-> New]
    /\ last = NoLast
    /\ uploaded = [k \in KeySet |-> NoBody]
    /\ overwritten = [k \in KeySet |-> FALSE]
    /\ service = S3Service

call_validate_file_type ==
    /\ vres = NoRes
    /\ vres' = [fn |-> "validate_file_type", arg |-> vfile,
                exc |-> validate_file_type(vfile)]
    /\ UNCHANGED <<bucket, inflight, last, uploaded, overwritten, vfile, service>>

call_validate_file_size ==
    /\ vres = NoRes
    /\ vres' = [fn |-> "validate_file_size", arg |-> vfile,
                exc |-> validate_file_size(vfile).exc]
    /\ vfile' = validate_file_size(vfile).file
    /\ UNCHANGED <<bucket, inflight, last, uploaded, overwritten, service>>

\* project-root's size probe
call_get_file_size ==
    /\ vres = NoRes
    /\ vres' = [fn |-> "_get_file_size", arg |-> vfile, exc |-> NoExc,
                size |-> _get_file_size(vfile).size]
    /\ vfile' = _get_file_size(vfile).file
    /\ UNCHANGED <<bucket, inflight, last, uploaded, overwritten, service>>

NextValidation ==
    \/ call_validate_file_type
    \/ call_validate_file_size
    \/ call_get_file_size

SpecValidation == InitValidation /\ [][NextValidation]_vars

(***************************************************************************)
(* The service method upload_file_to_s3 on its own                         *)
(***************************************************************************)
call_upload_file_to_s3(fault) ==
    /\ vres = NoRes
    /\ LET res == upload_file_to_s3(vfile, BackendError(fault))
       IN  vres' = [fn |-> "upload_file_to_s3", arg |-> vfile, exc |-> res.exc,
                    raised |-> BackendError(fault), file_url |-> res.file_url]
    /\ Stored(vfile, BackendError(fault))
    /\ UNCHANGED <<inflight, last, vfile, service>>

NextService == \E fault \in Faults : call_upload_file_to_s3(fault)

SpecService == InitValidation /\ [][NextService]_vars

(***************************************************************************)
(* Claims                                                                  *)
(***************************************************************************)
\* t occurs in s (strings as sequences of fragments)
Contains(s, t) ==
    /\ Len(t) > 0
    /\ \E i \in 0..(Len(s) - Len(t)) : SubSeq(s, i + 1, i + Len(t)) = t

Count(k, files) == Cardinality({i \in 1..Len(files) : files[i] = k})

\* the storage call of the last request failed for a reason other than a
\* missing key
BackendFailed(e) == e.cls \in Faults \ {"none"}

\* C1: fastapi-s3-app answers an upload that fails a validation check with
\* 400 and that check's message: "Unsupported file type." for a declared type
\* outside the allow-list, "File size exceeds the maximum limit of 5 MB." for
\* an allowed type with more than 5*1024*1024 bytes.
C1_ValidationAnswered400 ==
    last.op = "upload" =>
      /\ last.file.content_type \notin {"image/jpeg", "image/png", "application/pdf"}
           => /\ last.resp.status_code = 400
              /\ last.resp.detail = <<"Unsupported file type.">>
      /\ ( /\ last.file.content_type \in {"image/jpeg", "image/png", "application/pdf"}
           /\ last.file.file.data.size > 5 * 1024 * 1024 )
           => /\ last.resp.status_code = 400
              /\ last.resp.detail = <<"File size exceeds the maximum limit of 5 MB.">>

\* C2: validate_file_type returns without error exactly for the declared
\* types image/jpeg, image/png and application/pdf, and raises
\* HTTPException(400, "Unsupported file type.") for every other declared type.
C2_TypeAcceptedIffAllowed ==
    vres.fn = "validate_file_type" =>
      IF vres.arg.content_type \in {"image/jpeg", "image/png", "application/pdf"}
      THEN vres.exc = NoExc
      ELSE /\ vres.exc.cls = "HTTPException"
           /\ vres.exc.status_code = 400
           /\ vres.exc.detail = <<"Unsupported file type.">>

C2_Witness ==
    /\ vres.fn = "validate_file_type"
    /\ vres.arg.content_type = "application/zip"
    /\ vres.exc.status_code = 400

\* C3: validate_file_size accepts every size s with 0 <= s <= 5*1024*1024,
\* the limit included, and rejects every larger s, 5*1024*1024 + 1 included,
\* with HTTPException(400, "File size exceeds the maximum limit of 5 MB.").
C3_SizeAcceptedUpToLimit ==
    (vres.fn = "validate_file_size" /\ vres.arg.file.data.size >= 0) =>
      IF vres.arg.file.data.size <= 5 * 1024 * 1024
      THEN vres.exc = NoExc
      ELSE /\ vres.exc.cls = "HTTPException"
           /\ vres.exc.status_code = 400
           /\ vres.exc.detail = <<"File size exceeds the maximum limit of 5 MB.">>

C3_Witness ==
    /\ vres.fn = "validate_file_size"
    /\ vres.arg.file.data.size = 5 * 1024 * 1024 + 1
    /\ vres.exc.status_code = 400

\* C4: in fastapi-s3-app a Get of a key the bucket does not hold, when the
\* backend answers, is answered 404 with detail "File not found" (and so not
\* with 500): NoSuchKey becomes FileNotFoundError, which the route maps to 404.
C4_MissingKeyAnswered404 ==
    ( /\ last.op = "get"
      /\ bucket[last.key] = NoObj
      /\ ~BackendFailed(last.raised) ) =>
        /\ last.raised.cls = "NoSuchKey"
        /\ last.resp.status_code = 404
        /\ last.resp.detail = <<"File not found">>

C4_Witness ==
    /\ last.op = "get"
    /\ last.raised.cls = "NoSuchKey"
    /\ last.resp.status_code = 404
    /\ \E k \in KeySet : bucket[k] # NoObj

\* C5: project-root answers GET /files/{file_name} for a key the bucket does
\* not hold, when the backend answers, with 404 and detail "File not found.".
C5_RootMissingKeyAnswered404 ==
    ( /\ last.op = "get"
      /\ bucket[last.key] = NoObj
      /\ ~BackendFailed(last.raised) ) =>
        /\ last.resp.status_code = 404
        /\ last.resp.detail = <<"File not found.">>

\* C6: in fastapi-s3-app, once an upload of (k, b) has passed validation and
\* its put has succeeded, a Get of k before any other upload to k that the
\* backend answers returns 200 with exactly b: the whole payload, from its
\* first byte.
C6_UploadThenGetRoundTrip ==
    (last.op = "get" /\ uploaded[last.key] # NoBody) =>
      /\ ~BackendFailed(last.raised) => last.resp.status_code = 200
      /\ last.resp.status_code = 200 => last.resp.body = uploaded[last.key]

C6_Witness ==
    /\ last.op = "get"
    /\ last.resp.status_code = 200
    /\ last.resp.body.lo = 0
    /\ last.resp.body.hi = MAX_FILE_SIZE
    /\ last.resp.body = uploaded[last.key]

\* C7: after two successful uploads of the same filename k, b1 then b2, every
\* later successful Get of k returns b2 and every successful List contains k
\* exactly once.
C7_OverwriteThenGetAndList ==
    /\ (last.op = "get" /\ overwritten[last.key] /\ last.resp.status_code = 200)
         => last.resp.body = uploaded[last.key]
    /\ (last.op = "list" /\ last.resp.status_code = 200)
         => \A k \in KeySet : overwritten[k] => Count(k, last.resp.files) = 1

\* C8: two uploads of the same filename with different payloads that are
\* served at the same time and whose puts both succeed are both answered 200
\* with the same file_url, and while no third upload of that filename has
\* succeeded the bucket holds one of the two payloads whole.
Concurrent(r1, r2) == r1 \in inflight[r2].during \/ r2 \in inflight[r1].during

\* r's put has succeeded
PutDone(r) == inflight[r].pc = "done" /\ inflight[r].resp.status_code = 200

C8_ConcurrentUploadsLastWriteWins ==
    \A r1, r2 \in Reqs :
      ( /\ r1 # r2
        /\ inflight[r1].pc = "done" /\ inflight[r2].pc = "done"
        /\ Concurrent(r1, r2)
        /\ inflight[r1].file.filename = inflight[r2].file.filename
        /\ inflight[r1].file.file.data # inflight[r2].file.file.data
        /\ inflight[r1].raised = NoExc /\ inflight[r2].raised = NoExc ) =>
          /\ inflight[r1].resp.status_code = 200
          /\ inflight[r2].resp.status_code = 200
          /\ inflight[r1].resp.file_url = inflight[r2].resp.file_url
          /\ inflight[r1].resp.file_url = FileUrl(inflight[r1].file.filename)
          /\ (\A q \in Reqs \ {r1, r2} :
                ~(PutDone(q) /\ inflight[q].file.filename = inflight[r1].file.filename))
               => bucket[inflight[r1].file.filename].body \in
                    {Whole(inflight[r1].file.file.data),
                     Whole(inflight[r2].file.file.data)}

C8_Witness ==
    \E r1, r2 \in Reqs :
      /\ r1 # r2
      /\ inflight[r1].pc = "done" /\ inflight[r2].pc = "done"
      /\ r1 \in inflight[r2].during
      /\ inflight[r1].file.filename = inflight[r2].file.filename
      /\ inflight[r1].file.file.data.id # inflight[r2].file.file.data.id
      /\ inflight[r1].file.file.data.size = MAX_FILE_SIZE
      /\ inflight[r2].file.file.data.size = MAX_FILE_SIZE
      /\ inflight[r1].resp.status_code = 200 /\ inflight[r2].resp.status_code = 200
      /\ bucket[inflight[r1].file.filename].body = Whole(inflight[r1].file.file.data)

\* C9: in fastapi-s3-app every exception the storage call raises during
\* upload, list or get, except not-found on get, is answered 500 with detail
\* exactly "Internal Server Error", and the exception's text is not in the
\* response.
C9_BackendFailureAnswered500 ==
    ( /\ last.op \in {"upload", "list", "get"}
      /\ last.raised # NoExc
      /\ ~(last.op = "get" /\ last.raised.cls = "NoSuchKey") ) =>
        /\ last.resp.status_code = 500
        /\ last.resp.detail = <<"Internal Server Error">>
        /\ ~Contains(last.resp.detail, last.raised.msg)

\* C10: fastapi_s3_file_operations answers a backend ClientError during
\* upload, list or get with 500 and a body that does not contain the text of
\* the backend's exception.
C10_OpsClientErrorNotLeaked ==
    ( /\ last.op \in {"upload", "list", "get"}
      /\ last.raised.cls = "ClientError" ) =>
        /\ last.resp.status_code = 500
        /\ ~Contains(last.resp.detail, last.raised.msg)

\* C11: in fastapi-s3-app a List of a bucket that holds no object, when the
\* backend answers, is answered 200 with the empty list of files and not with
\* an error.
C11_EmptyBucketListsNothing ==
    ( /\ last.op = "list"
      /\ last.raised = NoExc
      /\ \A k \in KeySet : bucket[k] = NoObj ) =>
        /\ last.resp.status_code = 200
        /\ last.resp.files = <<>>
        /\ last.resp.detail = <<>>

C11_Witness ==
    /\ last.op = "list"
    /\ last.raised = NoExc
    /\ \A k \in KeySet : bucket[k] = NoObj
    /\ last.resp = FilesResponse(<<>>)

\* C12: a successful List returns the complete listing: every key the bucket
\* holds when the call is made is in the result, however many objects are
\* stored.
C12_ListIsComplete ==
    (last.op = "list" /\ last.resp.status_code = 200) =>
      \A k \in KeySet : bucket[k] # NoObj => Count(k, last.resp.files) >= 1

\* C13: the file_url a successful upload returns is exactly "https://" +
\* bucket name + ".s3.amazonaws.com/" + filename, whatever the payload, the
\* content type and the size.
C13_FileUrlFromBucketAndFilename ==
    (last.op = "upload" /\ last.resp.status_code = 200) =>
      last.resp.file_url = <<"https://", "bucket-for-ai-generated-content",
                             ".s3.amazonaws.com/", last.file.filename>>

C13_Witness ==
    /\ last.op = "upload"
    /\ last.resp.status_code = 200
    /\ last.file.filename = "b.png"
    /\ last.file.file.data.id = "b2"
    /\ overwritten["b.png"]
    /\ last.resp.file_url = <<"https://", "bucket-for-ai-generated-content",
                              ".s3.amazonaws.com/", "b.png">>

\* file fails a validation check as the specification states them: a declared
\* type outside the allow-list or more than 5*1024*1024 bytes
FailsValidation(file) ==
    \/ file.content_type \notin {"image/jpeg", "image/png", "application/pdf"}
    \/ file.file.data.size > 5 * 1024 * 1024

\* C14: fastapi-s3-app answers an upload with an allow-listed declared type
\* and at most 5*1024*1024 bytes, the limit included, whose put succeeds, with
\* 200, message "File uploaded successfully" and the file's URL.
C14_ValidUploadAnswered200 ==
    ( /\ last.op = "upload"
      /\ ~FailsValidation(last.file)
      /\ last.raised = NoExc ) =>
        /\ last.resp.status_code = 200
        /\ last.resp.message = "File uploaded successfully"
        /\ last.resp.file_url = FileUrl(last.file.filename)
        /\ last.resp.detail = <<>>

C14_Witness ==
    /\ last.op = "upload"
    /\ last.file.content_type = "image/png"
    /\ last.file.file.data.size = 5 * 1024 * 1024
    /\ last.calls = 1
    /\ last.resp.status_code = 200
    /\ last.resp.message = "File uploaded successfully"

\* C15: an upload that fails a validation check makes no call of the storage
\* backend and leaves the bucket, keys and bytes, as it was before the request.
C15_RejectedUploadLeavesBucket ==
    [][ (last'.op = "upload" /\ FailsValidation(last'.file)) =>
          (last'.calls = 0 /\ bucket' = bucket) ]_vars

C15_Witness ==
    /\ last.op = "upload"
    /\ last.file.content_type = "text/plain"
    /\ last.calls = 0
    /\ last.resp.status_code >= 400
    /\ bucket[last.key] # NoObj
    /\ bucket[last.key].body = uploaded[last.key]
    /\ bucket[last.key].body.id # last.file.file.data.id

\* C16: fastapi_s3_file_operations validates an upload before storing it: a
\* file with a declared type outside the allow-list or with more than 5 MB is
\* answered 400 and is not put into the bucket.
C16_OpsUploadValidated ==
    (last.op = "upload" /\ FailsValidation(last.file)) =>
      /\ last.resp.status_code = 400
      /\ last.calls = 0

\* C17: project-root answers an upload that fails validation with 400 and the
\* validator's detail message.
C17_RootValidationAnswered400 ==
    (last.op = "upload" /\ FailsValidation(last.file)) =>
      /\ last.resp.status_code = 400
      /\ last.resp.detail =
           IF last.file.content_type \notin {"image/jpeg", "image/png", "application/pdf"}
           THEN <<"Invalid file type. Allowed types are: JPEG, PNG, PDF.">>
           ELSE <<"File size exceeds the 5 MB limit.">>

\* C18: project-root answers POST /upload of a file within the size limit,
\* a text/plain file included, with 201 and message "File uploaded
\* successfully" whenever the backend raises nothing.
C18_RootUploadAnswered201 ==
    ( /\ last.op = "upload"
      /\ last.file.file.data.size <= 5 * 1024 * 1024
      /\ last.raised = NoExc ) =>
        /\ last.resp.status_code = 201
        /\ last.resp.message = "File uploaded successfully"

\* C19: List and Get are pure reads: neither changes the bucket, whether it
\* succeeds or fails, and a List or Get that repeats the request before it,
\* with the backend behaving the same, gets the same answer.
C19_ReadsArePure ==
    [][ last'.op \in {"list", "get"} =>
          /\ bucket' = bucket
          /\ ( /\ last.op = last'.op
               /\ last.key = last'.key
               /\ last.raised = last'.raised ) => last'.resp = last.resp ]_vars

C19_Witness ==
    /\ last.op = "get"
    /\ last.resp.status_code = 200
    /\ bucket[last.key].body = last.resp.body
    /\ \E k \in KeySet \ {last.key} : bucket[k] # NoObj

\* C20: no retries: every request makes at most one call of the storage
\* backend, and a request whose call fails made exactly that one call and
\* ends with an error response.
C20_NoRetries ==
    /\ last.calls <= 1
    /\ (last.op # "" /\ last.raised # NoExc) =>
         /\ last.calls = 1
         /\ last.resp.status_code \in {400, 404, 500}

C20_Witness ==
    /\ last.op = "list"
    /\ last.raised.cls = "ClientError"
    /\ last.calls = 1
    /\ last.resp.status_code = 500
    /\ \E k \in KeySet : bucket[k] # NoObj

\* C21: the service's bucket name and client handle are set in the
\* constructor and no upload, list or get, succeeding or failing, changes
\* either of them.
C21_ServiceFieldsFixed ==
    [][ /\ service'.bucket_name = service.bucket_name
        /\ service'.s3_client = service.s3_client ]_vars

C21_Witness ==
    /\ service = [s3_client |-> "boto3.client('s3')",
                  bucket_name |-> "bucket-for-ai-generated-content"]
    /\ last.op = "get"
    /\ last.resp.status_code = 500
    /\ \A k \in KeySet : overwritten[k]

\* C22: upload_file_to_s3 tells the two backend failure kinds apart: it raises
\* an error with message "AWS credentials not available." on
\* NoCredentialsError and one with message "Failed to upload file." on
\* ClientError, and returns no URL in either case.
C22_UploadFailureKindsDistinguished ==
    vres.fn = "upload_file_to_s3" =>
      /\ vres.raised.cls = "NoCredentialsError" =>
           /\ vres.exc.cls = "Exception"
           /\ vres.exc.msg = <<"AWS credentials not available.">>
           /\ vres.file_url = <<>>
      /\ vres.raised.cls = "ClientError" =>
           /\ vres.exc.cls = "Exception"
           /\ vres.exc.msg = <<"Failed to upload file.">>
           /\ vres.file_url = <<>>

C22_Witness ==
    /\ vres.fn = "upload_file_to_s3"
    /\ vres.raised.cls = "NoCredentialsError"
    /\ vres.exc.msg = <<"AWS credentials not available.">>
    /\ bucket[vres.arg.filename] = NoObj

\* C23: fastapi_s3_file_operations answers an upload that fails for missing
\* credentials (NoCredentialsError) with 403 and detail "AWS credentials not
\* found.", and an upload that fails with another ClientError with 500: the
\* client receives the status the service chose.
C23_OpsUploadCredentials403 ==
    last.op = "upload" =>
      /\ last.raised.cls = "NoCredentialsError" =>
           /\ last.resp.status_code = 403
           /\ last.resp.detail = <<"AWS credentials not found.">>
      /\ last.raised.cls = "ClientError" => last.resp.status_code = 500

C23_Witness ==
    /\ last.op = "upload"
    /\ last.raised.cls = "NoCredentialsError"
    /\ last.resp.status_code = 403
    /\ bucket[last.key] = NoObj

\* C24: after a successful upload the stored object's content type is the
\* content type declared in the upload request.
C24_StoredContentTypeIsDeclared ==
    (last.op = "upload" /\ last.resp.status_code = 200) =>
      bucket[last.key].content_type = last.file.content_type

\* C25: validate_file_size rejects a file whose probed size is negative with
\* HTTPException(400, "File size exceeds the maximum limit of 5 MB.").
C25_NegativeSizeRejected ==
    (vres.fn = "validate_file_size" /\ vres.arg.file.data.size < 0) =>
      /\ vres.exc.cls = "HTTPException"
      /\ vres.exc.status_code = 400
      /\ vres.exc.detail = <<"File size exceeds the maximum limit of 5 MB.">>

\* C26: in fastapi_s3_file_operations, after a successful upload of a key a
\* Get of that key that the backend answers returns 200 with exactly the
\* uploaded content, whether or not the bytes are UTF-8 text.
C26_OpsUploadThenGetRoundTrip ==
    ( /\ last.op = "get"
      /\ uploaded[last.key] # NoBody
      /\ ~BackendFailed(last.raised) ) =>
        /\ last.resp.status_code = 200
        /\ last.resp.body = uploaded[last.key]

\* C27: validation stops at the first failure: an upload that fails both
\* checks surfaces exactly one error, the content-type error, and not the
\* size error.
C27_FirstFailureIsContentType ==
    ( /\ last.op = "upload"
      /\ last.file.content_type \notin {"image/jpeg", "image/png", "application/pdf"}
      /\ last.file.file.data.size > 5 * 1024 * 1024 ) =>
        /\ Contains(last.resp.detail, <<"Unsupported file type.">>)
        /\ ~Contains(last.resp.detail,
                     <<"File size exceeds the maximum limit of 5 MB.">>)

\* C28: the size probe does not consume the stream: after validate_file_size
\* or _get_file_size has returned or raised, the stream is at position 0 and
\* holds the same bytes, whatever its position was before the call, so a read
\* that follows yields the file from its first byte.
C28_ProbeLeavesStreamAtStart ==
    vres.fn \in {"validate_file_size", "_get_file_size"} =>
      /\ tell(vfile.file) = 0
      /\ vfile.file.data = vres.arg.file.data
      /\ read(vfile.file) = Whole(vres.arg.file.data)

C28_Witness ==
    /\ vres.fn = "validate_file_size"
    /\ vres.arg.file.pos = 1024
    /\ vres.arg.file.data.size = 5 * 1024 * 1024 + 1
    /\ vres.exc.status_code = 400
    /\ vfile.file.pos = 0

\* C29: no request removes a key: once an upload of k has succeeded, the
\* bucket holds k, every later successful List contains k and no later Get of
\* k is answered not-found.
C29_KeysAreNeverRemoved ==
    \A k \in KeySet :
      uploaded[k] # NoBody =>
        /\ bucket[k] # NoObj
        /\ (last.op = "list" /\ last.resp.status_code = 200)
             => Count(k, last.resp.files) >= 1
        /\ (last.op = "get" /\ last.key = k) => last.resp.status_code # 404

\* C30: fastapi_s3_file_operations always answers: an HTTPException raised by
\* the service keeps its status and detail (403 for missing credentials on
\* upload, 404 for a missing key), every other exception becomes 500
\* "Internal Server Error", and every handler ends with a JSON response.
C30_HandleErrorKeepsStatus ==
    last.op # "" =>
      /\ last.resp.status_code \in {200, 403, 404, 500}
      /\ last.resp.media_type = "application/json"
      /\ (last.op = "get" /\ last.raised.cls = "NoSuchKey") =>
           /\ last.resp.status_code = 404
           /\ last.resp.detail = <<"File not found.">>
      /\ (last.op = "upload" /\ last.raised.cls = "NoCredentialsError") =>
           /\ last.resp.status_code = 403
           /\ last.resp.detail = <<"AWS credentials not found.">>
      /\ ( \/ last.raised.cls \in {"ValueError", "EndpointConnectionError"}
           \/ (last.op \in {"list", "get"} /\ last.raised.cls = "NoCredentialsError") ) =>
           /\ last.resp.status_code = 500
           /\ last.resp.detail = <<"Internal Server Error">>

C30_Witness ==
    /\ last.op = "get"
    /\ last.raised.cls = "NoSuchKey"
    /\ last.resp.status_code = 404
    /\ last.resp.detail = <<"File not found.">>
    /\ \E k \in KeySet : bucket[k] # NoObj

====
